---- MODULE Spec2Model ----
(***************************************************************************)
(* A model of the retrieval-and-generation core of the sustainable travel  *)
(* agent:                                                                  *)
(*   - PineconeManager (rag_system/vector_store.py): batched upsert,       *)
(*     filtered similarity query and delete against the remote index;      *)
(*   - RAGProcessor.ask (rag_system/rag_pipeline.py): the cache check,     *)
(*     retrieval, generation, filtering, cache write and statistics;       *)
(*   - SustainableTravelRAGService and SimpleSustainableTravelRAG: start   *)
(*     up and get_travel_advice with their fallbacks, the confidence and   *)
(*     the conversation memories;                                          *)
(*   - the clock, for the age of the response cache's entries.             *)
(* Strings are sequences of one-character strings, so that strip() is an   *)
(* operation on them.  Scores are cosine similarities in percent.          *)
(***************************************************************************)
EXTENDS Integers, Sequences, FiniteSets, TLC

VARIABLES
    \* PineconeManager
    store,          \* the remote index: id -> [embedding, metadata]
    call,           \* what the last PineconeManager call was given and gave back
    deleted,        \* ids deleted and not upserted since
    \* RAGProcessor
    cache,          \* self.cache: question -> answer
    token_usage,    \* self.token_usage
    response_times, \* self.response_times
    chat_memory,    \* self.memory.chat_memory.messages
    gens,           \* the generator objects the calls of ask() returned
    retrievals,     \* calls of retriever.get_relevant_documents so far
    generations,    \* calls of llm_pipeline so far
    answered,       \* <<session, question>> a non-streaming ask has answered
    \* SustainableTravelRAGService and SimpleSustainableTravelRAG
    svc,            \* the fields of the module's SustainableTravelRAGService
    memory,         \* its self.memory.chat_memory.messages
    simple,         \* the fields of the module's SimpleSustainableTravelRAG
    advice,         \* what the last get_travel_advice was given and gave back
    \* time
    now,            \* time.time(), in ticks
    cached_at,      \* question -> the time its cache entry was written
    \* KnowledgeBaseBuilder
    kb_file,        \* the records in the file at kb_path
    emb_file,       \* the records in the file at emb_path
    build,          \* how the last build() ended
    \* the API wrappers
    graded,         \* CarbonFootprintCalculator: the last emission and its grade
    req,            \* WeatherAPI: the call of _request under way, or the last
    \* threads that call ask on one RAGProcessor
    threads         \* where each thread is in its call, and its locals

vecVars == <<store, call, deleted>>
ragVars == <<cache, token_usage, response_times, gens, retrievals, generations, answered>>

svcVars == <<svc, memory, simple, advice>>

\* RAGProcessor's self.memory, which ask() does not touch
qaVars == <<chat_memory>>

\* the clock, and what the program does not keep: when an entry was cached
clockVars == <<now, cached_at>>

kbVars == <<kb_file, emb_file, build>>

apiVars == <<graded, req>>
thrVars == <<threads>>

vars == <<vecVars, ragVars, svcVars, qaVars, clockVars, kbVars, apiVars, thrVars>>

\* what the operations of one component leave alone
notVec == <<ragVars, svcVars, qaVars, clockVars, kbVars, apiVars, thrVars>>
notRag == <<vecVars, svcVars, qaVars, clockVars, kbVars, apiVars, thrVars>>
notSvc == <<vecVars, ragVars, qaVars, clockVars, kbVars, apiVars, thrVars>>
notQa == <<vecVars, ragVars, svcVars, clockVars, kbVars, apiVars, thrVars>>
notClock == <<vecVars, ragVars, svcVars, qaVars, kbVars, apiVars, thrVars>>
notKb == <<vecVars, ragVars, svcVars, qaVars, clockVars, apiVars, thrVars>>
notApi == <<vecVars, ragVars, svcVars, qaVars, clockVars, kbVars, thrVars>>
\* what a thread in ask leaves alone, besides the cache and the statistics
notThr == <<vecVars, svcVars, qaVars, kbVars, apiVars>>

(***************************************************************************)
(* Small helpers                                                           *)
(***************************************************************************)
Min(a, b) == IF a <= b THEN a ELSE b

ISqrt(x) == CHOOSE r \in 0..100 : r * r <= x /\ (r + 1) * (r + 1) > x

Range(s) == {s[i] : i \in 1..Len(s)}

RECURSIVE Flatten(_)
Flatten(ss) == IF ss = <<>> THEN <<>> ELSE Head(ss) \o Flatten(Tail(ss))

(***************************************************************************)
(* Inputs                                                                  *)
(***************************************************************************)
\* ids that the index operations are tried on
NumIds == 2
\* largest top_k tried
MaxTopK == 2
\* largest list length and batch size tried on upsert_vectors, next to the
\* test's own 20 vectors in batches of 5
MaxN == 4
MaxBatch == 2
\* vector_store_test.py: 20 mock vectors, batch_size=5
TestN == 20
TestBatch == 5
\* query()'s default similarity_threshold, 0.7, in percent
DefaultThreshold == 70

Ids == 1..NumIds
\* embeddings that are stored, and vectors that are queried with
Embeddings == {<<1, 0>>, <<1, 1>>}
QueryVectors == {<<1, 0>>, <<1, 1>>, <<0, 1>>}
Metas == {[location |-> "Berlin", category |-> "eco_hotel"],
          [location |-> "Paris", category |-> "eco_hotel"]}
\* a filter is a dict, here a set of <<field, value>> pairs; {} is "no filter"
Filters == {{}, {<<"location", "Berlin">>}, {<<"location", "Paris">>}}
Thresholds == {0, DefaultThreshold, 100}
TopKs == 1..MaxTopK

Vector(i, e, m) == [id |-> i, embedding |-> e, metadata |-> m]
Vectors == {Vector(i, e, m) : i \in Ids, e \in Embeddings, m \in Metas}

\* the mock vectors of vector_store_test.py: ids vec_1..vec_n, metadata Berlin
TestVectors(n) ==
    [i \in 1..n |-> Vector(i, <<1, 0>>, [location |-> "Berlin", category |-> "eco_hotel"])]

(***************************************************************************)
(* The remote index (the pinecone client's Index), by its contract         *)
(***************************************************************************)
Dot(a, b) == a[1] * b[1] + a[2] * b[2]

\* cosine similarity (create_index's default metric), in percent, rounded down
Cosine(q, e) == ISqrt((10000 * Dot(q, e) * Dot(q, e)) \div (Dot(q, q) * Dot(e, e)))

\* the same, computed once for the vectors in use
Scores == [q \in QueryVectors, e \in Embeddings |-> Cosine(q, e)]

Score(q, e) == Scores[q, e]

\* index.upsert(vectors=[(id, embedding, metadata), ...]): written by id,
\* a later tuple of the same id replacing an earlier one
RECURSIVE StoreUpsert(_, _)
StoreUpsert(s, tuples) ==
    IF tuples = <<>> THEN s
    ELSE LET t == Head(tuples)
             s1 == [i \in DOMAIN s \cup {t[1]} |->
                       IF i = t[1] THEN [embedding |-> t[2], metadata |-> t[3]]
                       ELSE s[i]]
         IN StoreUpsert(s1, Tail(tuples))

\* index.delete(ids): ids that are not stored are ignored
StoreDelete(s, ids) == [i \in DOMAIN s \ ids |-> s[i]]

FilterMatches(meta, filters) ==
    \A p \in filters : p[1] \in DOMAIN meta /\ meta[p[1]] = p[2]

Match(s, q, i) == [id |-> i, score |-> Score(q, s[i].embedding), metadata |-> s[i].metadata]

\* index.query(vector, top_k, filter, include_metadata): the top_k entries
\* matching the filter, best first; entries of equal score come in any
\* order, and any of them may fill the last places
StoreQuery(s, q, top_k, filters) ==
    LET cand == {i \in DOMAIN s : FilterMatches(s[i].metadata, filters)}
        n == Min(top_k, Cardinality(cand))
        sc(i) == Score(q, s[i].embedding)
        tops == {S \in SUBSET cand :
                    /\ Cardinality(S) = n
                    /\ \A a \in S, b \in cand \ S : sc(a) >= sc(b)}
        orders(S) == {o \in [1..n -> S] :
                        /\ \A i, j \in 1..n : i # j => o[i] # o[j]
                        /\ \A i, j \in 1..n : i < j => sc(o[i]) >= sc(o[j])}
    IN {[k \in 1..n |-> Match(s, q, o[k])] : o \in UNION {orders(S) : S \in tops}}

(***************************************************************************)
(* PineconeManager                                                         *)
(***************************************************************************)
\* upsert_vectors' loop: for i in range(0, len(vectors), batch_size), the
\* slice vectors[i:i+batch_size] zipped to (id, embedding, metadata) tuples
RECURSIVE BatchesFrom(_, _, _)
BatchesFrom(vectors, batch_size, i) ==
    IF i >= Len(vectors) THEN <<>>
    ELSE LET batch == SubSeq(vectors, i + 1, Min(i + batch_size, Len(vectors)))
             to_upsert == [k \in 1..Len(batch) |->
                              <<batch[k].id, batch[k].embedding, batch[k].metadata>>]
         IN <<[i |-> i, to_upsert |-> to_upsert]>>
                \o BatchesFrom(vectors, batch_size, i + batch_size)

\* a loop that stops before a last, shorter batch
BatchesFullOnly(vectors, batch_size) ==
    BatchesFrom(SubSeq(vectors, 1, Len(vectors) - (Len(vectors) % batch_size)),
                batch_size, 0)

Batches(vectors, batch_size) == BatchesFrom(vectors, batch_size, 0)

RECURSIVE SubmitAll(_, _)
SubmitAll(s, batches) ==
    IF batches = <<>> THEN s
    ELSE SubmitAll(StoreUpsert(s, Head(batches).to_upsert), Tail(batches))

\* the dimension the index was created with, that of the embeddings in use
Dimension == CHOOSE d \in {Len(e) : e \in Embeddings} : TRUE

\* the first batch the index rejects: index.upsert raises on a request that
\* holds a vector whose length is not the index's dimension, and writes
\* none of the request; 0 if there is none
FirstRejected(batches) ==
    LET bad == {k \in 1..Len(batches) :
                   \E t \in Range(batches[k].to_upsert) : Len(t[2]) # Dimension}
    IN IF bad = {} THEN 0 ELSE CHOOSE k \in bad : \A j \in bad : k <= j

\* upsert_vectors(vectors, batch_size); failing = 0: no index.upsert call
\* fails for a reason of its own; failing = k: the k-th index.upsert call
\* raises.  The exception of the first call that raises leaves
\* upsert_vectors.  The coroutine has no await in it, so it runs whole.
UpsertVectors(vectors, batch_size, failing) ==
    LET batches == Batches(vectors, batch_size)
        n == Len(batches)
        rejected == FirstRejected(batches)
        failAt == IF rejected = 0 THEN failing
                  ELSE IF failing = 0 THEN rejected ELSE Min(failing, rejected)
        done == IF failAt = 0 THEN n ELSE failAt - 1
        again == /\ call.op = "upsert"
                 /\ call.status = "raised"
                 /\ call.vectors = vectors
                 /\ call.batch_size = batch_size
    IN /\ failing \in 0..n
       /\ store' = SubmitAll(store, SubSeq(batches, 1, done))
       /\ call' = [op |-> "upsert",
                   vectors |-> vectors,
                   batch_size |-> batch_size,
                   submitted |-> SubSeq(batches, 1, IF failAt = 0 THEN n ELSE failAt),
                   committed |-> {batches[k].i : k \in 1..done},
                   status |-> IF failAt = 0 THEN "returned" ELSE "raised",
                   resumes |-> again,
                   before |-> IF again THEN call.committed ELSE {}]
       /\ deleted' = deleted \ {t[1] : t \in Range(Flatten(
                           [k \in 1..done |-> batches[k].to_upsert]))}
       /\ UNCHANGED notVec

\* matches.sort(key=lambda x: x.score, reverse=True): a stable sort, so
\* matches of equal score keep the order they came in
RECURSIVE InsertByScore(_, _)
InsertByScore(m, sorted) ==
    IF sorted = <<>> THEN <<m>>
    ELSE IF Head(sorted).score >= m.score
         THEN <<Head(sorted)>> \o InsertByScore(m, Tail(sorted))
         ELSE <<m>> \o sorted

RECURSIVE SortByScore(_)
SortByScore(ms) ==
    IF ms = <<>> THEN <<>>
    ELSE InsertByScore(ms[Len(ms)], SortByScore(SubSeq(ms, 1, Len(ms) - 1)))

\* a query that keeps every match the index delivered
AboveThresholdKeepsAll(ms, similarity_threshold) == ms

\* a query that drops a match whose score equals the threshold
AboveThresholdStrict(ms, similarity_threshold) ==
    SelectSeq(ms, LAMBDA m : m.score > similarity_threshold)

\* [m for m in results.matches if m.score >= similarity_threshold]
AboveThreshold(ms, similarity_threshold) ==
    SelectSeq(ms, LAMBDA m : m.score >= similarity_threshold)

\* what query() makes of the matches the index delivered
QueryResults(delivered, similarity_threshold) ==
    SortByScore(AboveThreshold(delivered, similarity_threshold))

\* query(query_vector, top_k, filters, similarity_threshold); filters is
\* handed on only when it is truthy, and an empty filter matches everything
Query(query_vector, top_k, filters, similarity_threshold) ==
    /\ \E delivered \in StoreQuery(store, query_vector, top_k, filters) :
          call' = [op |-> "query",
                   vector |-> query_vector,
                   top_k |-> top_k,
                   filters |-> filters,
                   threshold |-> similarity_threshold,
                   status |-> "returned",
                   results |-> QueryResults(delivered, similarity_threshold)]
    /\ UNCHANGED <<store, deleted>>
    /\ UNCHANGED notVec

\* a delete that logs and never reaches the index
DeleteLogsOnly(ids) ==
    /\ store' = store
    /\ call' = [op |-> "delete", ids |-> ids, status |-> "returned"]
    /\ deleted' = deleted \cup ids
    /\ UNCHANGED notVec

\* delete(ids)
Delete(ids) ==
    /\ store' = StoreDelete(store, ids)
    /\ call' = [op |-> "delete", ids |-> ids, status |-> "returned"]
    /\ deleted' = deleted \cup ids
    /\ UNCHANGED notVec

\* index.query or index.delete raises (the remote store cannot be reached):
\* the exception leaves query() or delete(), nothing is changed
RemoteCallRaises(op) ==
    /\ call' = [op |-> op, status |-> "raised"]
    /\ UNCHANGED <<store, deleted>>
    /\ UNCHANGED notVec

(***************************************************************************)
(* RAGProcessor                                                            *)
(***************************************************************************)
\* calls of ask() tried
MaxAsks == 2

\* questions: a word, and the same word in upper case with a blank before it
Questions == {<<"a">>, <<" ", "A">>}
\* texts the model generates: temperature 0.2 samples, so any of them
Generated == {<<"e", " ">>, <<" ">>}
\* what the retriever returns, by the documents' metadata
DocLists == {<<>>, <<"costa_rica">>}
\* chunk sequences of a streamed generation
ChunkLists == {<<>>, <<"e", "c">>}
\* seconds a generation takes; no branch of ask depends on the value
Elapsed == {2}

\* str.strip()
RECURSIVE LStrip(_)
LStrip(t) == IF t # <<>> /\ Head(t) = " " THEN LStrip(Tail(t)) ELSE t

RECURSIVE RStrip(_)
RStrip(t) ==
    IF t # <<>> /\ t[Len(t)] = " " THEN RStrip(SubSeq(t, 1, Len(t) - 1)) ELSE t

Strip(t) == RStrip(LStrip(t))

\* str.lower()
Lower(t) == [k \in 1..Len(t) |-> IF t[k] = "A" THEN "a" ELSE t[k]]

\* _filter_response: the relevance check only logs; the text is stripped
FilterResponse(response) == Strip(response)

\* _fact_check: a stub
FactCheck(response, context) == TRUE

\* len(self.tokenizer.encode(text)): one token a character and one a
\* retrieved document, after the template's own
Tokens(question, docs, answer) == 1 + Len(question) + Len(docs) + Len(answer)

\* cached = self._cache_get(question); if cached: the key is the question as
\* given, and an empty cached answer is falsy
CacheHit(question) == question \in DOMAIN cache /\ cache[question] # <<>>

\* _cache_set
CacheSet(question, answer) ==
    [q \in DOMAIN cache \cup {question} |-> IF q = question THEN answer ELSE cache[q]]

NoValue == [kind |-> "unset"]

\* the conversations ask is called for; ask is not told which, and the
\* model keeps it with the call
AskSessions == {"A", "B"}

\* ask(question, stream): the body holds a yield, so ask is a generator
\* function whatever stream is; the call runs none of the body and returns
\* a generator object
Ask(session, question, stream) ==
    /\ Len(gens) < MaxAsks
    /\ gens' = Append(gens, [pc |-> "created",
                             session |-> session,
                             question |-> question,
                             stream |-> stream,
                             chunks |-> <<>>,
                             value |-> NoValue,
                             age |-> 0,
                             fact_ok |-> TRUE,
                             filtered |-> <<>>,
                             after |-> answered,
                             retrieved |-> FALSE,
                             generated |-> FALSE])
    /\ UNCHANGED <<cache, token_usage, response_times, retrievals, generations, answered>>
    /\ UNCHANGED notRag

Ended(g, pc, value) == [gens EXCEPT ![g].pc = pc, ![g].value = value]

\* a hit that is counted in the statistics like a miss
NextCacheHitTracked(g) ==
    LET question == gens[g].question
    IN /\ gens[g].pc = "created"
       /\ CacheHit(question)
       /\ gens' = [Ended(g, "finished",
                         [kind |-> "answer", answer |-> cache[question], cached |-> TRUE])
                   EXCEPT ![g].age = now - cached_at[question]]
       /\ answered' = IF gens[g].stream THEN answered
                      ELSE answered \cup {<<gens[g].session, question>>}
       /\ response_times' = Append(response_times, 1)
       /\ token_usage' = token_usage + Tokens(question, <<>>, cache[question])
       /\ UNCHANGED <<cache, retrievals, generations>>
       /\ UNCHANGED notRag

\* the first next() on the generator: the cache holds the question, and the
\* body returns the cached answer (StopIteration carries it)
NextCacheHit(g) ==
    LET question == gens[g].question
    IN /\ gens[g].pc = "created"
       /\ CacheHit(question)
       /\ gens' = [Ended(g, "finished",
                         [kind |-> "answer", answer |-> cache[question], cached |-> TRUE])
                   EXCEPT ![g].age = now - cached_at[question]]
       /\ answered' = IF gens[g].stream THEN answered
                      ELSE answered \cup {<<gens[g].session, question>>}
       /\ UNCHANGED <<cache, token_usage, response_times, retrievals, generations>>
       /\ UNCHANGED notRag

\* the first next(): a miss, and get_relevant_documents raises
NextRetrievalRaises(g) ==
    /\ gens[g].pc = "created"
    /\ ~CacheHit(gens[g].question)
    /\ retrievals' = retrievals + 1
    /\ gens' = [Ended(g, "raised", NoValue) EXCEPT ![g].retrieved = TRUE]
    /\ UNCHANGED <<cache, token_usage, response_times, generations, answered>>
    /\ UNCHANGED notRag

\* the first next(): a miss, documents retrieved, and llm_pipeline raises
NextGenerationRaises(g) ==
    /\ gens[g].pc = "created"
    /\ ~CacheHit(gens[g].question)
    /\ retrievals' = retrievals + 1
    /\ generations' = generations + 1
    /\ gens' = [Ended(g, "raised", NoValue) EXCEPT ![g].retrieved = TRUE,
                                                   ![g].generated = TRUE]
    /\ UNCHANGED <<cache, token_usage, response_times, answered>>
    /\ UNCHANGED notRag

\* what _fact_check may return: the stub returns True, a check put in its
\* place returns either
FactCheckResults == {FactCheck(<<>>, <<>>), FALSE}

\* the notice, held as one piece of text
Notice == <<"[Fact-check failed: Please verify this information.]">>

\* an ask that keeps the generated text whatever the check says
CheckedKeepsText(filtered, fact_ok) == filtered

\* if not self._fact_check(answer, context): answer = "[Fact-check failed: ...]"
Checked(filtered, fact_ok) == IF fact_ok THEN filtered ELSE Notice

\* the first next() with stream=False: a miss; retrieval, generation, token
\* count, filter, fact check, cache write and statistics, then the return
NextAnswer(g, docs, text, elapsed, fact_ok) ==
    LET question == gens[g].question
        tokens == Tokens(question, docs, text)
        filtered == FilterResponse(text)
        answer == Checked(filtered, fact_ok)
    IN /\ gens[g].pc = "created"
       /\ ~gens[g].stream
       /\ ~CacheHit(question)
       /\ retrievals' = retrievals + 1
       /\ generations' = generations + 1
       /\ cache' = CacheSet(question, answer)
       /\ response_times' = Append(response_times, elapsed)
       /\ token_usage' = token_usage + tokens
       /\ gens' = [Ended(g, "finished",
                         [kind |-> "answer",
                          answer |-> answer,
                          source_documents |-> docs,
                          tokens |-> tokens,
                          response_time |-> elapsed,
                          cached |-> FALSE])
                   EXCEPT ![g].retrieved = TRUE, ![g].generated = TRUE,
                          ![g].fact_ok = fact_ok, ![g].filtered = filtered]
       /\ answered' = answered \cup {<<gens[g].session, question>>}
       /\ cached_at' = [q \in DOMAIN cached_at \cup {question} |->
                           IF q = question THEN now ELSE cached_at[q]]
       /\ UNCHANGED <<vecVars, svcVars, qaVars, kbVars, apiVars, thrVars, now>>

\* the first next() with stream=True: a miss; retrieval, then the streamed
\* generation: its first chunk is yielded, or it has none and the body ends
NextStreamStart(g, docs, chunks) ==
    /\ gens[g].pc = "created"
    /\ gens[g].stream
    /\ ~CacheHit(gens[g].question)
    /\ retrievals' = retrievals + 1
    /\ generations' = generations + 1
    /\ gens' = [gens EXCEPT ![g].pc = IF chunks = <<>> THEN "finished" ELSE "suspended",
                            ![g].chunks = IF chunks = <<>> THEN <<>> ELSE Tail(chunks),
                            ![g].value = IF chunks = <<>> THEN [kind |-> "None"]
                                         ELSE [kind |-> "chunk", text |-> Head(chunks)],
                            ![g].retrieved = TRUE,
                            ![g].generated = TRUE]
    /\ UNCHANGED <<cache, token_usage, response_times, answered>>
    /\ UNCHANGED notRag

\* a later next() on a streaming generator: the next chunk, or the end of the
\* loop: tokens is counted into a local and the body falls off its end
NextChunk(g) ==
    /\ gens[g].pc = "suspended"
    /\ gens' = [gens EXCEPT ![g].pc = IF gens[g].chunks = <<>> THEN "finished"
                                      ELSE "suspended",
                            ![g].chunks = IF gens[g].chunks = <<>> THEN <<>>
                                          ELSE Tail(gens[g].chunks),
                            ![g].value = IF gens[g].chunks = <<>> THEN [kind |-> "None"]
                                         ELSE [kind |-> "chunk",
                                               text |-> Head(gens[g].chunks)]]
    /\ UNCHANGED <<cache, token_usage, response_times, retrievals, generations, answered>>
    /\ UNCHANGED notRag

\* a drop that caches what the generator had yielded so far
CloseCachesPartial(g) ==
    /\ gens[g].pc \in {"created", "suspended"}
    /\ gens' = [gens EXCEPT ![g].pc = "closed"]
    /\ cache' = IF gens[g].value.kind = "chunk"
                THEN CacheSet(gens[g].question, <<gens[g].value.text>>)
                ELSE cache
    /\ UNCHANGED <<token_usage, response_times, retrievals, generations, answered>>
    /\ UNCHANGED notRag

\* the caller drops a generator it has not run to its end: GeneratorExit is
\* raised at the yield, and no handler and no finally clause is there to run
Close(g) ==
    /\ gens[g].pc \in {"created", "suspended"}
    /\ gens' = [gens EXCEPT ![g].pc = "closed"]
    /\ UNCHANGED <<cache, token_usage, response_times, retrievals, generations, answered>>
    /\ UNCHANGED notRag

(***************************************************************************)
(* ask(question) called from several threads on one RAGProcessor.  The     *)
(* class holds no lock; a thread may be switched out between any two of    *)
(* the steps below.  Each thread pulls its generator to the end at once.   *)
(***************************************************************************)
Threads == {"T1", "T2"}

Idle == [pc |-> "idle", question |-> <<>>, answer |-> <<>>, tokens |-> 0,
         read |-> 0, cached |-> FALSE]

\* cached = self._cache_get(question): a hit returns, a miss goes on to
\* retrieval and generation
ThreadLookup(t, question) ==
    /\ threads[t].pc = "idle"
    /\ threads' = [threads EXCEPT ![t] =
                      IF CacheHit(question)
                      THEN [Idle EXCEPT !.pc = "returned", !.question = question,
                                        !.answer = cache[question], !.cached = TRUE]
                      ELSE [Idle EXCEPT !.pc = "generate", !.question = question]]
    /\ UNCHANGED <<cache, token_usage, response_times, gens, retrievals,
                   generations, answered, now, cached_at>>
    /\ UNCHANGED notThr

\* retrieval, generation, the token count, the filter, the fact check and
\* _cache_set
ThreadGenerate(t, docs, text) ==
    LET question == threads[t].question
        answer == Checked(FilterResponse(text), FactCheck(text, docs))
    IN /\ threads[t].pc = "generate"
       /\ retrievals' = retrievals + 1
       /\ generations' = generations + 1
       /\ cache' = CacheSet(question, answer)
       /\ cached_at' = [q \in DOMAIN cached_at \cup {question} |->
                           IF q = question THEN now ELSE cached_at[q]]
       /\ threads' = [threads EXCEPT ![t].pc = "append", ![t].answer = answer,
                                     ![t].tokens = Tokens(question, docs, text)]
       /\ UNCHANGED <<token_usage, response_times, gens, answered, now>>
       /\ UNCHANGED notThr

\* _track_performance: self.response_times.append(elapsed), one call of a
\* list method
ThreadAppend(t, elapsed) ==
    /\ threads[t].pc = "append"
    /\ response_times' = Append(response_times, elapsed)
    /\ threads' = [threads EXCEPT ![t].pc = "load"]
    /\ UNCHANGED <<cache, token_usage, gens, retrievals, generations, answered,
                   now, cached_at>>
    /\ UNCHANGED notThr

\* self.token_usage += tokens, first half: the attribute is read
ThreadLoad(t) ==
    /\ threads[t].pc = "load"
    /\ threads' = [threads EXCEPT ![t].pc = "store", ![t].read = token_usage]
    /\ UNCHANGED <<cache, token_usage, response_times, gens, retrievals,
                   generations, answered, now, cached_at>>
    /\ UNCHANGED notThr

\* self.token_usage += tokens, second half: the sum is written back; then
\* the return
ThreadStore(t) ==
    /\ threads[t].pc = "store"
    /\ token_usage' = threads[t].read + threads[t].tokens
    /\ threads' = [threads EXCEPT ![t].pc = "returned"]
    /\ UNCHANGED <<cache, response_times, gens, retrievals, generations, answered,
                   now, cached_at>>
    /\ UNCHANGED notThr

ThreadInit == threads = [t \in Threads |-> Idle]

ThreadNext ==
    \/ \E t \in Threads, q \in Questions : ThreadLookup(t, q)
    \/ \E t \in Threads, docs \in DocLists, text \in Generated :
          ThreadGenerate(t, docs, text)
    \/ \E t \in Threads, e \in Elapsed : ThreadAppend(t, e)
    \/ \E t \in Threads : ThreadLoad(t)
    \/ \E t \in Threads : ThreadStore(t)

\* self.qa_chain(query): RetrievalQA was built with memory=self.memory, a
\* ConversationBufferMemory, so each call saves its exchange to it; the
\* buffer keeps every message and hands every message back
QaChain(query, result) ==
    /\ chat_memory' = chat_memory \o <<[role |-> "human", text |-> query],
                                       [role |-> "ai", text |-> result]>>
    /\ UNCHANGED notQa

\* time passes
Tick ==
    /\ now' = now + 1
    /\ UNCHANGED cached_at
    /\ UNCHANGED notClock

RagInit ==
    /\ now = 0
    /\ cached_at = <<>>
    /\ chat_memory = <<>>
    /\ cache = <<>>
    /\ token_usage = 0
    /\ response_times = <<>>
    /\ gens = <<>>
    /\ retrievals = 0
    /\ generations = 0
    /\ answered = {}

RagNext ==
    \/ \E s \in AskSessions, q \in Questions, stream \in BOOLEAN : Ask(s, q, stream)
    \/ \E g \in DOMAIN gens : NextCacheHit(g)
    \/ \E g \in DOMAIN gens : NextRetrievalRaises(g)
    \/ \E g \in DOMAIN gens : NextGenerationRaises(g)
    \/ \E g \in DOMAIN gens, docs \in DocLists, text \in Generated, e \in Elapsed,
          ok \in FactCheckResults :
          NextAnswer(g, docs, text, e, ok)
    \/ \E g \in DOMAIN gens, docs \in DocLists, chunks \in ChunkLists :
          NextStreamStart(g, docs, chunks)
    \/ \E g \in DOMAIN gens : NextChunk(g)
    \/ \E g \in DOMAIN gens : Close(g)

(***************************************************************************)
(* SustainableTravelRAGService and SimpleSustainableTravelRAG              *)
(***************************************************************************)
\* conversation turns kept track of
MaxTurns == 1

\* a question is taken by the words in it; the keyword tests are substring
\* tests on question.lower()
Words == {"Where", "flight", "hotel", "hello"}
AdviceQuestions == {{"Where"}, {"flight"}, {"hotel", "Where"}, {"hello"}}
LowerWord(w) == IF w = "Where" THEN "where" ELSE w
QuestionLower(question) == {LowerWord(w) : w \in question}
AnyIn(keywords, question) == keywords \cap QuestionLower(question) # {}

\* user_context: none, or a destination
UserContexts == {{}, {"traveling to Berlin"}}
\* lengths of the answers the chain generates; a length ending in 5 puts
\* the confidence half way between two hundredths, where the binary form of
\* the float decides which way round() goes, and is left out
AnswerLens == {0, 44, 47, 600}
\* the documents a search returns, by name: the chain's retriever returns up
\* to TOP_K_RETRIEVAL = 5, similarity_search(question, k=3) up to 3
SvcDocLists == {<<>>, <<"costa_rica">>, <<"iceland", "transport">>,
                <<"costa_rica", "iceland", "transport", "accommodation", "budget">>}
SimpleDocLists == {d \in SvcDocLists : Len(d) <= 3}

\* len(answer) of the fixed texts, which the model holds by their first words
AnswerLength(answer) ==
    CASE answer = "Costa Rica is an excellent choice" -> 223
      [] answer = "Iceland is perfect" -> 201
      [] answer = "For sustainable transportation" -> 273
      [] answer = "Choose sustainable accommodations" -> 248
      [] answer = "Budget sustainable travel tips" -> 204
      [] answer = "Transportation emissions by mode" -> 243
      [] answer = "Based on sustainable travel best practices" -> 247
      [] answer = "Top sustainable destinations" -> 186
      [] answer = "For sustainable transport" -> 165
      [] answer = "Choose eco-certified accommodations" -> 131
      [] answer = "For sustainable travel" -> 164
      [] answer = "knowledge base is not available" -> 144
      [] answer = "I encountered an error" -> 80

\* the conversations get_travel_advice is called for; the function is not
\* told which, and the model keeps it with the call and with the turn
Sessions == {"A", "B"}

\* ConversationBufferWindowMemory(k=10): k exchanges, of a human and an ai
\* message each
WindowK == 10
\* self.memory.chat_memory.messages[-10:]
HistoryReturned == 10

LastN(messages, n) ==
    SubSeq(messages, Len(messages) - Min(n, Len(messages)) + 1, Len(messages))

\* what the window memory loads into the prompt's chat_history: the last k
\* exchanges of the messages it keeps; it keeps them all
Window(messages) == LastN(messages, 2 * WindowK)

\* confidences are in thousandths
\* _init_embeddings .. _load_travel_knowledge, as __init__ runs them; the
\* arguments say which of the outside parts work.  An exception of
\* _init_embeddings or "No LLM available" is logged and raised again.
ServiceInit(embOk, apiKey, pineconeOk, hfOk, openaiOk) ==
    LET pinecone == apiKey /\ pineconeOk
        vectorstore == IF pinecone THEN "pinecone" ELSE "none"
        storeLog == IF ~apiKey THEN {<<"warning", "no api key">>}
                    ELSE IF ~pineconeOk THEN {<<"error", "pinecone">>}
                    ELSE {}
        llm == IF hfOk THEN "hf" ELSE IF openaiOk THEN "openai" ELSE "none"
        llmLog == IF hfOk THEN {} ELSE {<<"error", "llm">>}
        \* _init_qa_chain runs before _load_travel_knowledge
        qa_chain == vectorstore # "none" /\ llm # "none"
        loaded == IF vectorstore = "none" THEN "faiss" ELSE vectorstore
    IN /\ svc.status = "new"
       /\ svc' = IF ~embOk
                 THEN [status |-> "failed", embedding_model |-> FALSE,
                       vectorstore |-> "none", llm |-> "none", qa_chain |-> FALSE,
                       logged |-> {<<"error", "init">>}]
                 ELSE IF llm = "none"
                 THEN [status |-> "failed", embedding_model |-> TRUE,
                       vectorstore |-> vectorstore, llm |-> "none", qa_chain |-> FALSE,
                       logged |-> storeLog \cup llmLog \cup {<<"error", "init">>}]
                 ELSE [status |-> "ready", embedding_model |-> TRUE,
                       vectorstore |-> loaded, llm |-> llm, qa_chain |-> qa_chain,
                       logged |-> storeLog \cup llmLog]
       /\ UNCHANGED <<memory, simple, advice>>
       /\ UNCHANGED notSvc

\* _enhance_question
EnhanceQuestion(question, user_context) ==
    IF user_context = {} THEN question ELSE question \cup {"Context"} \cup user_context

\* round(confidence, 2), on thousandths
Round2(v) == ((v + 5) \div 10) * 10

\* a confidence without the cap at 0.9
CalculateConfidenceUncapped(source_docs, answer_length) ==
    IF source_docs = <<>> THEN 300
    ELSE Round2(500 + Len(source_docs) * 100 + Min(answer_length, 500))

\* a confidence that puts no sources through the formula too
CalculateConfidenceNoZeroCase(source_docs, answer_length) ==
    Round2(Min(900, 500 + Len(source_docs) * 100 + Min(answer_length, 500)))

\* _calculate_confidence, in thousandths
CalculateConfidence(source_docs, answer_length) ==
    IF source_docs = <<>> THEN 300
    ELSE Round2(Min(900, 500 + Len(source_docs) * 100 + Min(answer_length, 500)))

\* get_travel_advice with no chain: the fixed apology
AdviceNoChain(question, user_context) ==
    /\ svc.status = "ready"
    /\ ~svc.qa_chain
    /\ advice' = [service |-> "rasa", question |-> question, cause |-> "unavailable",
                  answer |-> "knowledge base is not available",
                  answer_length |-> AnswerLength("knowledge base is not available"),
                  sources |-> <<>>, confidence |-> 500]
    /\ UNCHANGED <<svc, memory, simple>>
    /\ UNCHANGED notSvc

\* get_travel_advice: the chain raises, and the except branch answers
AdviceChainRaises(question, user_context) ==
    /\ svc.status = "ready"
    /\ svc.qa_chain
    /\ advice' = [service |-> "rasa", question |-> question, cause |-> "raised",
                  answer |-> "I encountered an error",
                  answer_length |-> AnswerLength("I encountered an error"),
                  sources |-> <<>>, confidence |-> 0]
    /\ UNCHANGED <<svc, memory, simple>>
    /\ UNCHANGED notSvc

\* get_travel_advice: the chain loads its memory's window into the prompt,
\* answers from the retrieved documents and saves the turn to its memory
AdviceFromChain(session, question, user_context, source_docs, answer_length) ==
    /\ svc.status = "ready"
    /\ svc.qa_chain
    /\ memory' = memory \o <<[role |-> "human", session |-> session,
                              text |-> EnhanceQuestion(question, user_context)],
                             [role |-> "ai", session |-> session,
                              text |-> answer_length]>>
    /\ advice' = [service |-> "rasa", question |-> question, cause |-> "none",
                  answer |-> "generated", answer_length |-> answer_length,
                  sources |-> source_docs,
                  confidence |-> CalculateConfidence(source_docs, answer_length),
                  session |-> session,
                  history |-> Window(memory),
                  chat_history |-> LastN(memory', HistoryReturned)]
    /\ UNCHANGED <<svc, simple>>
    /\ UNCHANGED notSvc

\* SimpleSustainableTravelRAG._initialize: an exception of the embeddings or
\* of FAISS.from_documents is logged, and the object is left without a
\* vector store
SimpleInit(embOk, faissOk) ==
    /\ simple.status = "new"
    /\ simple' = [status |-> "ready", vectorstore |-> embOk /\ faissOk]
    /\ UNCHANGED <<svc, memory, advice>>
    /\ UNCHANGED notSvc

\* a fallback that tests the keywords on the question as typed
FallbackResponseAsTyped(question) ==
    IF {"destination", "where", "place"} \cap question # {}
        THEN "Top sustainable destinations"
    ELSE IF {"transport", "flight", "travel"} \cap question # {}
        THEN "For sustainable transport"
    ELSE IF {"accommodation", "hotel"} \cap question # {}
        THEN "Choose eco-certified accommodations"
    ELSE "For sustainable travel"

\* _fallback_response: the first rule whose keyword is in the question
FallbackResponse(question) ==
    IF AnyIn({"destination", "where", "place"}, question)
        THEN "Top sustainable destinations"
    ELSE IF AnyIn({"transport", "flight", "travel"}, question)
        THEN "For sustainable transport"
    ELSE IF AnyIn({"accommodation", "hotel"}, question)
        THEN "Choose eco-certified accommodations"
    ELSE "For sustainable travel"

\* _generate_response
GenerateResponse(question, docs) ==
    IF AnyIn({"destination", "where"}, question)
        THEN IF "costa_rica" \in Range(docs) THEN "Costa Rica is an excellent choice"
             ELSE IF "iceland" \in Range(docs) THEN "Iceland is perfect"
             ELSE "Based on sustainable travel best practices"
    ELSE IF AnyIn({"transport", "flight", "train"}, question)
        THEN "For sustainable transportation"
    ELSE IF AnyIn({"accommodation", "hotel", "stay"}, question)
        THEN "Choose sustainable accommodations"
    ELSE IF AnyIn({"budget", "cheap", "affordable"}, question)
        THEN "Budget sustainable travel tips"
    ELSE IF AnyIn({"carbon", "footprint", "emissions"}, question)
        THEN "Transportation emissions by mode"
    ELSE "Based on sustainable travel best practices"

\* SimpleSustainableTravelRAG.get_travel_advice falling back: no vector
\* store, similarity_search raising, or no documents found
SimpleAdviceFallback(question, cause) ==
    /\ simple.status = "ready"
    /\ \/ cause = "unavailable" /\ ~simple.vectorstore
       \/ cause \in {"raised", "empty"} /\ simple.vectorstore
    /\ advice' = [service |-> "simple", question |-> question, cause |-> cause,
                  answer |-> FallbackResponse(question),
                  answer_length |-> AnswerLength(FallbackResponse(question)),
                  sources |-> <<>>, confidence |-> 500]
    /\ UNCHANGED <<svc, memory, simple>>
    /\ UNCHANGED notSvc

\* "confidence": 0.8 if len(docs) >= 2 else 0.6
DocsConfidence(docs) == IF Len(docs) >= 2 THEN 800 ELSE 600

\* SimpleSustainableTravelRAG.get_travel_advice answering from documents
SimpleAdviceFromDocs(question, docs) ==
    /\ simple.status = "ready"
    /\ simple.vectorstore
    /\ docs # <<>>
    /\ advice' = [service |-> "simple", question |-> question, cause |-> "none",
                  answer |-> GenerateResponse(question, docs),
                  answer_length |-> AnswerLength(GenerateResponse(question, docs)),
                  sources |-> docs,
                  confidence |-> DocsConfidence(docs)]
    /\ UNCHANGED <<svc, memory, simple>>
    /\ UNCHANGED notSvc

SvcInit ==
    /\ svc = [status |-> "new", embedding_model |-> FALSE, vectorstore |-> "none",
              llm |-> "none", qa_chain |-> FALSE, logged |-> {}]
    /\ memory = <<>>
    /\ simple = [status |-> "new", vectorstore |-> FALSE]
    /\ advice = [service |-> "none"]

SvcNext ==
    \/ \E embOk, apiKey, pineconeOk, hfOk, openaiOk \in BOOLEAN :
          ServiceInit(embOk, apiKey, pineconeOk, hfOk, openaiOk)
    \/ \E q \in AdviceQuestions, c \in UserContexts : AdviceNoChain(q, c)
    \/ \E q \in AdviceQuestions, c \in UserContexts : AdviceChainRaises(q, c)
    \/ \E q \in AdviceQuestions, c \in UserContexts, d \in SvcDocLists, n \in AnswerLens :
          Len(memory) < 2 * MaxTurns /\ AdviceFromChain("A", q, c, d, n)
    \/ \E embOk, faissOk \in BOOLEAN : SimpleInit(embOk, faissOk)
    \/ \E q \in AdviceQuestions, cause \in {"unavailable", "raised", "empty"} :
          SimpleAdviceFallback(q, cause)
    \/ \E q \in AdviceQuestions, d \in SimpleDocLists : SimpleAdviceFromDocs(q, d)

(***************************************************************************)
(* KnowledgeBaseBuilder                                                    *)
(***************************************************************************)
\* documents scraped in one build
MaxDocs == 3

\* the metadata fields validate_data asks for
MetaFields == {"location", "category", "sustainability_score"}

\* what extract_metadata returns, by the fields in it: the stub returns all
\* three, an extraction put in its place may leave one out
ExtractedMetas == {MetaFields, MetaFields \ {"category"},
                   MetaFields \ {"sustainability_score"}}

\* the documents of a build, by their metadata; a source that cannot be
\* scraped is logged and gives no document
ScrapedDocs == UNION {[1..n -> ExtractedMetas] : n \in 0..MaxDocs}

\* process(): a record for each chunk, here one chunk a document
Process(metas) ==
    [i \in 1..Len(metas) |-> [text |-> "chunk", metadata |-> metas[i], source |-> i]]

\* a validation that looks at the text alone
FirstInvalidTextOnly(records) ==
    LET bad == {i \in 1..Len(records) : records[i].text = ""}
    IN IF bad = {} THEN 0 ELSE CHOOSE i \in bad : \A j \in bad : i <= j

\* validate_data: the first record an assert fails on, 0 if none does
FirstInvalid(records) ==
    LET bad == {i \in 1..Len(records) :
                   \/ records[i].text = ""
                   \/ ~(MetaFields \subseteq records[i].metadata)}
    IN IF bad = {} THEN 0 ELSE CHOOSE i \in bad : \A j \in bad : i <= j

\* generate_embeddings: each record with its embedding, a list
WithEmbeddings(records) ==
    [i \in 1..Len(records) |->
        [text |-> records[i].text, metadata |-> records[i].metadata,
         source |-> records[i].source, embedding |-> "list"]]

\* build(): process and save, validate_data, generate and save embeddings,
\* validate_embeddings.  A failing assert raises AssertionError, which
\* leaves build()
Build(metas) ==
    LET processed == Process(metas)
        bad == FirstInvalid(processed)
    IN /\ kb_file' = processed
       /\ emb_file' = IF bad = 0 THEN WithEmbeddings(processed) ELSE emb_file
       /\ build' = [status |-> IF bad = 0 THEN "returned" ELSE "raised",
                    failed_at |-> bad,
                    generated |-> bad = 0,
                    saved |-> bad = 0]
       /\ UNCHANGED notKb

KbInit ==
    /\ kb_file = <<>>
    /\ emb_file = <<>>
    /\ build = [status |-> "new", failed_at |-> 0, generated |-> FALSE, saved |-> FALSE]

KbNext == \E metas \in ScrapedDocs : Build(metas)

(***************************************************************************)
(* CarbonFootprintCalculator                                               *)
(***************************************************************************)
\* largest amount (km, nights) an emission is calculated for
MaxAmount == 210

\* EMISSION_FACTORS[mode]["global"], in thousandths of a kg per unit
Modes == {"flight", "train", "car", "hotel"}
Factor(mode) ==
    CASE mode = "flight" -> 255
      [] mode = "train" -> 41
      [] mode = "car" -> 192
      [] mode = "hotel" -> 15000

\* calculate_emission, in thousandths of a kg
CalculateEmission(mode, amount) == amount * Factor(mode)

Grades == <<"A", "B", "C", "D", "E", "F">>

\* SUSTAINABILITY_GRADES, the bounds in thousandths of a kg; the last range
\* has no upper bound
GradeLow == <<0, 51000, 101000, 201000, 401000, 801000>>
GradeHigh == <<50000, 100000, 200000, 400000, 800000>>

InRange(k, emission) ==
    GradeLow[k] <= emission /\ (k = 6 \/ emission <= GradeHigh[k])

\* sustainability_score: the grade of the first range the emission is in,
\* "F" if it is in none
SustainabilityScore(emission) ==
    LET hit == {k \in 1..6 : InRange(k, emission)}
    IN IF hit = {} THEN "F" ELSE Grades[CHOOSE k \in hit : \A j \in hit : k <= j]

\* sustainability_score(calculate_emission(mode, amount)), as calculate_trip
\* grades a trip of one segment
Grade(mode, amount) ==
    /\ graded' = [mode |-> mode, amount |-> amount,
                  emission |-> CalculateEmission(mode, amount),
                  grade |-> SustainabilityScore(CalculateEmission(mode, amount))]
    /\ UNCHANGED req
    /\ UNCHANGED notApi

CarbonNext == \E mode \in Modes, amount \in 0..MaxAmount : Grade(mode, amount)

(***************************************************************************)
(* WeatherAPI._request                                                     *)
(***************************************************************************)
\* largest retries tried
MaxRetries == 8

RECURSIVE Pow2(_)
Pow2(n) == IF n = 0 THEN 1 ELSE 2 * Pow2(n - 1)

\* a sleep of the same length after every failure
SleepConstant(attempt) == 1

\* time.sleep(2 ** attempt)
Sleep(attempt) == Pow2(attempt)

\* the loop's next turn, or its end: the error is logged and None returned
NextTurn(retries, attempt) ==
    IF attempt < retries
    THEN [pc |-> "try", attempt |-> attempt]
    ELSE [pc |-> "returned", attempt |-> attempt]

\* _request(url, params, retries) is called
Request(retries) ==
    /\ req.pc \in {"idle", "returned"}
    /\ req' = [pc |-> NextTurn(retries, 0).pc, retries |-> retries, attempt |-> 0,
               made |-> 0, succeeded_at |-> 0, slept |-> <<>>, result |-> "None"]
    /\ UNCHANGED graded
    /\ UNCHANGED notApi

\* requests.get answers and raise_for_status and json() pass: the json is
\* returned
AttemptSucceeds ==
    /\ req.pc = "try"
    /\ req' = [req EXCEPT !.pc = "returned", !.made = @ + 1,
                          !.succeeded_at = req.made + 1, !.result = "json"]
    /\ UNCHANGED graded
    /\ UNCHANGED notApi

\* requests.get, raise_for_status or json() raises, within the timeout: the
\* warning is logged and the sleep begins
AttemptFails ==
    /\ req.pc = "try"
    /\ req' = [req EXCEPT !.pc = "sleep", !.made = @ + 1,
                          !.slept = Append(@, Sleep(req.attempt))]
    /\ UNCHANGED graded
    /\ UNCHANGED notApi

\* the sleep ends
Wake ==
    /\ req.pc = "sleep"
    /\ req' = [req EXCEPT !.pc = NextTurn(req.retries, req.attempt + 1).pc,
                          !.attempt = @ + 1]
    /\ UNCHANGED graded
    /\ UNCHANGED notApi

RequestNext ==
    \/ \E retries \in 0..MaxRetries : Request(retries)
    \/ AttemptSucceeds
    \/ AttemptFails
    \/ Wake

ApiInit ==
    /\ graded = [mode |-> "none", amount |-> 0, emission |-> 0, grade |-> "A"]
    /\ req = [pc |-> "idle", retries |-> 0, attempt |-> 0, made |-> 0,
              succeeded_at |-> 0, slept |-> <<>>, result |-> "None"]

(***************************************************************************)
(* Specifications                                                          *)
(***************************************************************************)
VecInit ==
    /\ store = <<>>
    /\ call = [op |-> "init", status |-> "returned"]
    /\ deleted = {}

\* the index under single-vector upserts, queries and deletes
IndexNext ==
    \/ \E v \in Vectors, failAt \in 0..1 : UpsertVectors(<<v>>, 1, failAt)
    \/ \E q \in QueryVectors, k \in TopKs, f \in Filters, t \in Thresholds :
          Query(q, k, f, t)
    \/ \E ids \in SUBSET Ids : Delete(ids)
    \/ \E op \in {"query", "delete"} : RemoteCallRaises(op)

Init == VecInit /\ RagInit /\ SvcInit /\ KbInit /\ ApiInit /\ ThreadInit

SpecIndex == Init /\ [][IndexNext]_vars

\* vectors whose embeddings are of the index's dimension, shorter and longer
DimVectors == {Vector(i, e, [location |-> "Berlin", category |-> "eco_hotel"]) :
                  i \in Ids, e \in {<<1, 0>>, <<1>>, <<1, 0, 0>>}}

\* upsert_vectors over vectors of any length
DimNext ==
    \E n \in 1..2, b \in 1..MaxBatch : \E vs \in [1..n -> DimVectors] :
        UpsertVectors(vs, b, 0)

SpecDim == Init /\ [][DimNext]_vars

\* upsert_vectors over lists of several batches, with a failing batch
UpsertNext ==
    \/ \E n \in 0..MaxN, b \in 1..MaxBatch, failAt \in 0..MaxN :
          UpsertVectors(TestVectors(n), b, failAt)
    \/ \E failAt \in 0..TestN : UpsertVectors(TestVectors(TestN), TestBatch, failAt)

SpecUpsert == Init /\ [][UpsertNext]_vars

\* ask() and the generators it returns
SpecRag == Init /\ [][RagNext]_vars

\* the two services: start up and get_travel_advice
SpecSvc == Init /\ [][SvcNext]_vars

\* exchanges the two memories are followed over
MaxExchanges == 12

\* the two conversation memories: the service's, under get_travel_advice
\* called for either conversation, and RAGProcessor's, under its qa_chain
MemNext ==
    \/ ServiceInit(TRUE, TRUE, TRUE, TRUE, TRUE)
    \/ \E s \in Sessions :
          /\ Len(memory) < 2 * MaxExchanges
          /\ AdviceFromChain(s, {"hello"}, {}, <<"costa_rica">>, 44)
    \/ /\ Len(chat_memory) < 2 * MaxExchanges
       /\ QaChain(<<"a">>, <<"e">>)

SpecMem == Init /\ [][MemNext]_vars

\* build() over scraped documents
SpecKb == Init /\ [][KbNext]_vars

\* ask called once from each of the threads
SpecThreads == Init /\ [][ThreadNext]_vars

\* the grading of emissions
SpecCarbon == Init /\ [][CarbonNext]_vars

\* _request: an attempt ends, by the answer or by the timeout of 10 seconds,
\* and a sleep ends
SpecRequest ==
    /\ Init
    /\ [][RequestNext]_vars
    /\ WF_vars(AttemptSucceeds \/ AttemptFails)
    /\ WF_vars(Wake)

\* ticks the clock is followed over
MaxTime == 3

\* ask() of one question while time passes
TtlNext ==
    \/ Ask("A", <<"a">>, FALSE)
    \/ \E g \in DOMAIN gens : NextCacheHit(g)
    \/ \E g \in DOMAIN gens, docs \in DocLists, e \in Elapsed :
          NextAnswer(g, docs, <<"e", " ">>, e, TRUE)
    \/ now < MaxTime /\ Tick

SpecTtl == Init /\ [][TtlNext]_vars

(***************************************************************************)
(* Properties of ask                                                       *)
(***************************************************************************)
\* the specification's normal form of a question: trimmed and case-folded
Normalize(question) == Lower(Strip(question))

\* an ask with stream=False whose body has run to its return
Returned(g) == gens[g].pc = "finished" /\ ~gens[g].stream

\* C1: once a non-streaming ask has answered a question, a later ask of the
\* same session with the same normalized question is served from the cache:
\* it returns the answer marked cached and calls neither retrieval nor
\* generation.
C1_RepeatServedFromCache ==
    \A g \in DOMAIN gens :
        (/\ Returned(g)
         /\ \E p \in gens[g].after :
               /\ p[1] = gens[g].session
               /\ Normalize(p[2]) = Normalize(gens[g].question))
        => /\ gens[g].value.cached
           /\ ~gens[g].retrieved
           /\ ~gens[g].generated

\* C2: ask(question, stream=False) does its work during the call and hands
\* the answer back as the call's result: no call with stream=False is left
\* with its body still to run.
C2_AnswerAtReturn ==
    \A g \in DOMAIN gens : ~gens[g].stream => gens[g].pc \in {"finished", "raised"}

\* C3: ask never raises to the caller: a failure of retrieval or generation
\* still ends in an answer.
C3_NeverRaises ==
    \A g \in DOMAIN gens : gens[g].pc # "raised"

(***************************************************************************)
(* Properties of get_travel_advice                                         *)
(***************************************************************************)
\* get_travel_advice answered without a vector store or chain to use, or
\* after retrieval raised
Degraded ==
    /\ advice.service \in {"rasa", "simple"}
    /\ advice.cause \in {"unavailable", "raised"}

\* the rule a question falls under: the first of destination, transport,
\* accommodation whose keyword the lower-cased question holds
Rule(question) ==
    LET words == {IF w = "Where" THEN "where" ELSE w : w \in question}
    IN IF "where" \in words THEN "Top sustainable destinations"
       ELSE IF "flight" \in words THEN "For sustainable transport"
       ELSE IF "hotel" \in words THEN "Choose eco-certified accommodations"
       ELSE "For sustainable travel"

C5_FallbackIndexServes ==
    (advice.service = "rasa" /\ svc.vectorstore = "faiss") =>
        advice.cause \in {"none", "raised"}

(***************************************************************************)
(* Properties of the vector index                                          *)
(***************************************************************************)
IsQuery == call.op = "query" /\ call.status = "returned"
IsUpsert == call.op = "upsert"

\* C6: every sequence query(vector, topK, filter, threshold) returns has at
\* most topK results, is sorted by score descending, holds only scores at or
\* above the threshold and only entries whose metadata match the filter.
C6_QueryResultShape ==
    IsQuery =>
        LET r == call.results
        IN /\ Len(r) <= call.top_k
           /\ \A i, j \in 1..Len(r) : i < j => r[i].score >= r[j].score
           /\ \A i \in 1..Len(r) : r[i].score >= call.threshold
           /\ \A i \in 1..Len(r) : \A p \in call.filters :
                 r[i].metadata[p[1]] = p[2]

\* a filtered query over the default threshold that returned two results of
\* different scores
C6_Witness ==
    /\ IsQuery
    /\ call.filters # {}
    /\ call.threshold = DefaultThreshold
    /\ Len(call.results) = 2
    /\ call.results[1].score > call.results[2].score

\* C7: an upsert that returns has submitted the entries as sequential
\* batches of at most batchSize entries, in input order, every entry in
\* exactly one batch, ceil(N / batchSize) batches in all.
C7_BatchesPartitionInput ==
    (IsUpsert /\ call.status = "returned") =>
        LET sub == [k \in 1..Len(call.submitted) |-> call.submitted[k].to_upsert]
            N == Len(call.vectors)
            b == call.batch_size
        IN /\ Len(sub) = (N + b - 1) \div b
           /\ \A k \in 1..Len(sub) : Len(sub[k]) \in 1..b
           /\ Flatten(sub) = [k \in 1..N |-> <<call.vectors[k].id,
                                                call.vectors[k].embedding,
                                                call.vectors[k].metadata>>]

\* the test's call: 20 vectors in batches of 5 went out as 4 batches
C7_Witness ==
    /\ IsUpsert
    /\ call.status = "returned"
    /\ Len(call.vectors) = TestN
    /\ call.batch_size = TestBatch
    /\ Len(call.submitted) = 4

\* C8: an upsert resumes after a failed batch without reprocessing: the
\* batches committed before the failure stay in the index, and the call
\* that takes the same entries up again submits none of them a second time.
C8_ResumeSkipsCommitted ==
    /\ (IsUpsert /\ call.status = "raised") =>
          \A k \in 1..(Len(call.submitted) - 1) :
              \A t \in Range(call.submitted[k].to_upsert) : t[1] \in DOMAIN store
    /\ (IsUpsert /\ call.resumes) =>
          \A k \in 1..Len(call.submitted) : call.submitted[k].i \notin call.before

\* C9: a batch is reported failed only after it was retried: the failing
\* batch was submitted more than once before the failure left upsert.
C9_FailedBatchWasRetried ==
    (IsUpsert /\ call.status = "raised") =>
        LET last == call.submitted[Len(call.submitted)].i
        IN Cardinality({k \in 1..Len(call.submitted) : call.submitted[k].i = last}) >= 2

\* C10: after delete(ids) no query returns a deleted id until it is upserted
\* again; a delete removes exactly the stored ids among ids, so deleting a
\* missing id, or the same id twice, leaves the index as it was; a delete
\* that raises (the store cannot be reached) changes nothing either.
C10_DeletedStayGone ==
    /\ [](IsQuery => \A k \in 1..Len(call.results) : call.results[k].id \notin deleted)
    /\ [][(call'.op = "delete" /\ call'.status = "returned") =>
            /\ DOMAIN store' = DOMAIN store \ call'.ids
            /\ \A i \in DOMAIN store' : store'[i] = store[i]
            /\ (call'.ids \cap DOMAIN store = {} => store' = store)]_vars
    /\ [][(call'.op = "delete" /\ call'.status = "raised") => store' = store]_vars

\* a query that returned an entry while another id was deleted and not yet
\* upserted again
C10_Witness ==
    /\ IsQuery
    /\ deleted # {}
    /\ Len(call.results) >= 1

\* a query that returned, made with the embedding stored under X and a
\* filter X's metadata match, while no deleted id is missing from the index
OwnEmbeddingQuery(X) ==
    /\ IsQuery
    /\ deleted = {}
    /\ X \in DOMAIN store
    /\ store[X].embedding = call.vector
    /\ FilterMatches(store[X].metadata, call.filters)

\* C11 as stated: for an upserted entry X, nothing being deleted, a query
\* with X's own embedding returns a non-empty result whose first element is
\* X, with a score at or above the threshold.
C11_OwnEmbeddingRanksFirst ==
    \A X \in Ids :
        OwnEmbeddingQuery(X) =>
            /\ Len(call.results) >= 1
            /\ call.results[1].id = X
            /\ call.results[1].score >= call.threshold

\* C11 as amended: such a query returns a non-empty result whose first
\* element has X's own score, the full 1.0, at or above the threshold; the
\* first element is X itself when no other stored entry matching the filter
\* has an embedding of the same direction.
C11_OwnEmbeddingTopScore ==
    \A X \in Ids :
        OwnEmbeddingQuery(X) =>
            /\ Len(call.results) >= 1
            /\ call.results[1].score = 100
            /\ call.results[1].score >= call.threshold
            /\ (\A Y \in DOMAIN store \ {X} :
                    FilterMatches(store[Y].metadata, call.filters)
                        => Score(store[X].embedding, store[Y].embedding) < 100)
                => call.results[1].id = X

\* a query with the embedding of entry 2 at threshold 1.0, which returned
\* entry 2 alone although entry 1, of another direction, is stored too
C11_Witness ==
    /\ OwnEmbeddingQuery(2)
    /\ 1 \in DOMAIN store
    /\ store[1].embedding # store[2].embedding
    /\ call.threshold = 100
    /\ call.top_k = 2
    /\ Len(call.results) = 1
    /\ call.results[1].id = 2

(***************************************************************************)
(* Properties of the confidence                                            *)
(***************************************************************************)
\* get_travel_advice answered from retrieved documents, or from none found
Computed(service) == advice.service = service /\ advice.cause \in {"none", "empty"}

\* C12: the confidence of every returned answer lies in [0, 0.9]; the
\* confidence computed for an answer is not above the one computed for more
\* sources and the same length, nor above the one for a longer answer and
\* the same sources.
C12_ConfidenceBoundedMonotone ==
    /\ advice.service # "none" => advice.confidence \in 0..900
    /\ Computed("rasa") =>
          /\ \A d \in SvcDocLists :
                Len(d) >= Len(advice.sources)
                    => CalculateConfidence(d, advice.answer_length) >= advice.confidence
          /\ \A l \in AnswerLens :
                l >= advice.answer_length
                    => CalculateConfidence(advice.sources, l) >= advice.confidence
    /\ Computed("simple") =>
          \A d \in SimpleDocLists \ {<<>>} :
              Len(d) >= Len(advice.sources) => DocsConfidence(d) >= advice.confidence

\* an answer from one source, 47 characters long: 0.647, rounded to 0.65
C12_Witness ==
    /\ Computed("rasa")
    /\ Len(advice.sources) = 1
    /\ advice.answer_length = 47
    /\ advice.confidence = 650

\* the specification's confidence for a source count and an answer length,
\* in thousandths
SpecConfidence(sourceCount, answerLength) ==
    IF sourceCount = 0 THEN 300
    ELSE Min(900, 500 + 100 * Min(sourceCount, 4) + Min(answerLength, 500))

\* C13 as stated: the confidence computed for an answer equals 0.3 when it
\* has no sources and otherwise
\* min(0.9, 0.5 + 0.1 * min(sourceCount, 4) + min(answerLength, 500) / 1000).
C13_ConfidenceIsFormula ==
    (advice.service \in {"rasa", "simple"} /\ advice.cause = "none") =>
        advice.confidence = SpecConfidence(Len(advice.sources), advice.answer_length)

\* C13 as amended: SustainableTravelRAGService computes 0.3 for no sources
\* and otherwise that formula's value rounded to two decimals;
\* SimpleSustainableTravelRAG gives 0.6 for one document and 0.8 for two or
\* more, whatever the answer's length.
C13_ConfidenceAsComputed ==
    /\ (advice.service = "rasa" /\ advice.cause = "none") =>
          LET f == SpecConfidence(Len(advice.sources), advice.answer_length)
          IN /\ advice.confidence % 10 = 0
             /\ advice.confidence - f \in -4..4
             /\ advice.sources = <<>> => advice.confidence = 300
    /\ (advice.service = "simple" /\ advice.cause = "none") =>
          /\ Len(advice.sources) = 1 => advice.confidence = 600
          /\ Len(advice.sources) >= 2 => advice.confidence = 800

\* five sources and a short answer: 0.5 + 0.5 + 0.044 in the code,
\* 0.5 + 0.4 + 0.044 in the formula, 0.9 in both
C13_Witness ==
    /\ advice.service = "rasa"
    /\ advice.cause = "none"
    /\ Len(advice.sources) = 5
    /\ advice.answer_length = 44
    /\ advice.confidence = 900

(***************************************************************************)
(* Properties of the conversation memories                                 *)
(***************************************************************************)
\* C14: a conversation memory holds at most k = 10 turns, the most recent
\* ones in their order, the oldest being evicted first; a turn is taken as
\* an exchange, the human message and the ai message answering it.
C14_MemoryHoldsWindow ==
    /\ Len(memory) <= 2 * WindowK
    /\ Len(chat_memory) <= 2 * WindowK

\* C15: the conversation history get_travel_advice works from, and the
\* chat_history it returns, hold turns of the conversation it is called
\* for and of no other.
C15_HistoryOfOwnSession ==
    (advice.service = "rasa" /\ advice.cause = "none") =>
        /\ \A k \in 1..Len(advice.history) :
              advice.history[k].session = advice.session
        /\ \A k \in 1..Len(advice.chat_history) :
              advice.chat_history[k].session = advice.session

(***************************************************************************)
(* Properties of the response cache                                        *)
(***************************************************************************)
\* an ask that was answered from the cache
ServedFromCache(g) == gens[g].pc = "finished" /\ gens[g].value.kind = "answer"
                         /\ gens[g].value.cached

\* an ask that ran generation and wrote its answer to the cache
WroteCache(g) == gens[g].pc = "finished" /\ gens[g].value.kind = "answer"
                    /\ ~gens[g].value.cached

\* C16: the cache key is the normalized question combined with the session
\* id: questions that differ only in letter case or surrounding whitespace
\* share one cache entry, and an ask is served from the cache only by an
\* entry its own session wrote for the same normalized question.
C16_CacheKeyNormalizedPerSession ==
    /\ \A q1, q2 \in DOMAIN cache : Normalize(q1) = Normalize(q2) => q1 = q2
    /\ \A g \in DOMAIN gens :
          ServedFromCache(g) =>
              \E h \in DOMAIN gens :
                  /\ WroteCache(h)
                  /\ gens[h].session = gens[g].session
                  /\ Normalize(gens[h].question) = Normalize(gens[g].question)

\* the time to live of a cache entry, in ticks
Ttl == 2

\* C17: an entry older than its time to live is never returned by a lookup:
\* no ask is served from the cache by an entry of that age; it runs
\* retrieval and generation again.
C17_ExpiredEntryNotServed ==
    \A g \in DOMAIN gens : ServedFromCache(g) => gens[g].age < Ttl

(***************************************************************************)
(* Properties of streaming                                                 *)
(***************************************************************************)
\* a streaming ask whose generation was run to its last chunk
Drained(g) == gens[g].stream /\ gens[g].pc = "finished" /\ gens[g].value.kind = "None"

\* C18: no step of a streaming ask, the drop of its generator before the
\* stream ends among them, changes the response cache, the conversation
\* memory or the statistics: a partial answer is never cached or memorized.
C18_StreamLeavesStateAlone ==
    [][\A g \in DOMAIN gens :
          (gens[g].stream /\ gens'[g] # gens[g])
              => UNCHANGED <<cache, chat_memory, token_usage, response_times>>]_vars

\* a stream dropped after its first chunk, with a chunk left unpulled, while
\* the cache holds an answer
C18_Witness ==
    \E g \in DOMAIN gens :
        /\ gens[g].stream
        /\ gens[g].pc = "closed"
        /\ gens[g].value.kind = "chunk"
        /\ gens[g].chunks # <<>>
        /\ cache # <<>>

\* C19: once a streaming ask is drained, its answer is in the response
\* cache, its turn is in the conversation memory, and its elapsed time and
\* token count are in the statistics.
C19_DrainedStreamRecorded ==
    \A g \in DOMAIN gens :
        Drained(g) =>
            /\ gens[g].question \in DOMAIN cache
            /\ chat_memory # <<>>
            /\ response_times # <<>>
            /\ token_usage > 0

\* C20: when retrieval returns no documents, ask answers without calling
\* the generation provider.
C20_NoDocumentsNoGeneration ==
    \A g \in DOMAIN gens :
        (WroteCache(g) /\ gens[g].value.source_documents = <<>>) => ~gens[g].generated

(***************************************************************************)
(* Properties of a completed miss                                          *)
(***************************************************************************)
\* the asks that missed the cache and ran to their return
Misses == {g \in DOMAIN gens : WroteCache(g)}

\* C21: every non-streaming ask that missed the cache and returned has
\* written its answer to the cache, appended its turn (the question and the
\* answer) to the conversation memory and recorded its elapsed time and token
\* count, each once.
C21_MissWritesCacheMemoryStats ==
    /\ \A g \in Misses : gens[g].question \in DOMAIN cache
    /\ Len(chat_memory) = 2 * Cardinality(Misses)
    /\ Len(response_times) = Cardinality(Misses)

\* C22: when the fact check fails, the ask still returns an answer, and the
\* answer is the notice in place of the generated text.
C22_FailedCheckGivesNotice ==
    \A g \in DOMAIN gens :
        (gens[g].generated /\ ~gens[g].stream /\ ~gens[g].fact_ok) =>
            /\ gens[g].pc = "finished"
            /\ gens[g].value.kind = "answer"
            /\ gens[g].value.answer = Notice
            /\ gens[g].value.answer # gens[g].filtered

\* a failed check on a generated text that was not empty
C22_Witness ==
    \E g \in DOMAIN gens :
        /\ WroteCache(g)
        /\ ~gens[g].fact_ok
        /\ gens[g].filtered = <<"e">>
        /\ gens[g].value.answer = Notice

(***************************************************************************)
(* Properties of the knowledge base build                                  *)
(***************************************************************************)
\* a record with a text and the three metadata fields
ValidRecord(r) == r.text # "" /\ MetaFields \subseteq r.metadata

\* C23: a record that lacks a required metadata field is skipped and the
\* others are still processed: the build is not ended by it, and the
\* embeddings file holds exactly the valid records of the knowledge base
\* file, in their order.
C23_InvalidRecordSkipped ==
    build.status # "new" =>
        /\ build.status = "returned"
        /\ [i \in 1..Len(emb_file) |-> emb_file[i].source]
              = SelectSeq([i \in 1..Len(kb_file) |-> kb_file[i].source],
                          LAMBDA src : ValidRecord(kb_file[src]))

\* C24: a validation failure halts the build: embeddings are generated and
\* the embeddings file is written only if every record of the knowledge
\* base file passed validation, and a build that validation ended did
\* neither.
C24_ValidationHaltsBuild ==
    /\ (build.generated \/ build.saved) =>
          \A i \in 1..Len(kb_file) : ValidRecord(kb_file[i])
    /\ (\E i \in 1..Len(kb_file) : ~ValidRecord(kb_file[i])) =>
          /\ build.status = "raised"
          /\ ~build.generated
          /\ ~build.saved
          /\ \A i \in 1..Len(emb_file) : ValidRecord(emb_file[i])

\* a build halted at its second record, after an earlier build had written
\* an embeddings file
C24_Witness ==
    /\ build.status = "raised"
    /\ build.failed_at = 2
    /\ Len(kb_file) = 3
    /\ emb_file # <<>>

(***************************************************************************)
(* Properties of the embeddings' dimension                                 *)
(***************************************************************************)
\* C25: every stored entry has an embedding of the index's dimension, and
\* upsert_vectors rejects a record whose embedding is of another length: it
\* submits no such record to the index.
C25_WrongDimensionNotSubmitted ==
    /\ \A i \in DOMAIN store : Len(store[i].embedding) = Dimension
    /\ IsUpsert =>
          \A k \in 1..Len(call.submitted) :
              \A t \in Range(call.submitted[k].to_upsert) : Len(t[2]) = Dimension

\* C26: in every query result, results of equal score are in ascending order
\* of id, so that the order does not depend on the order the index
\* delivered them in.
C26_TiesByAscendingId ==
    IsQuery =>
        \A i, j \in 1..Len(call.results) :
            (i < j /\ call.results[i].score = call.results[j].score)
                => call.results[i].id < call.results[j].id

(***************************************************************************)
(* Properties of the API wrappers                                          *)
(***************************************************************************)
\* C28: _request ends after at most `retries` attempts; a successful
\* attempt is the last one and its response is returned; each sleep between
\* attempts is twice the one before, starting at one second; when every
\* attempt failed, None is returned.
C28_RequestBounded ==
    /\ [](/\ req.made <= req.retries
          /\ req.pc = "returned" =>
                /\ req.result = "json" => req.succeeded_at = req.made
                /\ req.result = "None" => (req.succeeded_at = 0 /\ req.made = req.retries)
          /\ \A k \in 1..Len(req.slept) :
                req.slept[k] = IF k = 1 THEN 1 ELSE 2 * req.slept[k - 1])
    /\ (req.pc \in {"try", "sleep"}) ~> (req.pc = "returned")

\* three attempts failed and None came back, after sleeps of 1, 2 and 4
C28_Witness ==
    /\ req.pc = "returned"
    /\ req.retries = 3
    /\ req.result = "None"
    /\ req.slept = <<1, 2, 4>>

\* the place of a grade on the scale A < B < C < D < E < F
GradeRank(grade) == CHOOSE k \in 1..6 : Grades[k] = grade

\* C30: sustainability_score is monotone: an emission is not graded worse
\* than any emission that is at least as large.
C30_GradeMonotone ==
    \A mode \in Modes, amount \in 0..MaxAmount :
        graded.emission <= CalculateEmission(mode, amount)
            => GradeRank(graded.grade)
                  <= GradeRank(SustainabilityScore(CalculateEmission(mode, amount)))

(***************************************************************************)
(* Properties of a cache hit                                               *)
(***************************************************************************)
\* C29: a cache hit changes nothing: the step that serves an ask from the
\* cache leaves token_usage, the response times and the cache as they were;
\* and the text a hit returned is the text a miss on the same question
\* returned and stored, the only text that is not empty any miss on that
\* question returned.
C29_CacheHitChangesNothing ==
    /\ [][\A g \in DOMAIN gens :
             (gens[g].pc = "created" /\ ServedFromCache(g)')
                 => UNCHANGED <<cache, token_usage, response_times>>]_vars
    /\ [](\A g \in DOMAIN gens :
             ServedFromCache(g) =>
                 /\ cache[gens[g].question] = gens[g].value.answer
                 /\ \E h \in Misses :
                       /\ gens[h].question = gens[g].question
                       /\ gens[h].value.answer = gens[g].value.answer
                 /\ \A h \in Misses :
                       (gens[h].question = gens[g].question
                           /\ gens[h].value.answer # <<>>)
                           => gens[h].value.answer = gens[g].value.answer)

\* a hit that returned the notice a miss on the same question had stored
C29_Witness ==
    \E g, h \in DOMAIN gens :
        /\ ServedFromCache(g)
        /\ gens[g].value.answer = Notice
        /\ WroteCache(h) /\ gens[h].question = gens[g].question
        /\ gens[h].value.answer = Notice
        /\ token_usage > 0

(***************************************************************************)
(* Properties of the statistics under concurrent asks                      *)
(***************************************************************************)
\* the threads whose ask missed the cache and returned
Counted == {t \in Threads : threads[t].pc = "returned" /\ ~threads[t].cached}

RECURSIVE TokensOf(_)
TokensOf(ts) ==
    IF ts = {} THEN 0
    ELSE LET t == CHOOSE x \in ts : TRUE
         IN threads[t].tokens + TokensOf(ts \ {t})

\* C27: under any interleaving of concurrent asks, token_usage never
\* decreases, and once every call has returned it is the sum of the token
\* counts of the asks that missed the cache, with one response time
\* recorded for each of them.
C27_StatisticsAdditive ==
    /\ [][token_usage' >= token_usage]_vars
    /\ []((\A t \in Threads : threads[t].pc = "returned") =>
             /\ token_usage = TokensOf(Counted)
             /\ Len(response_times) = Cardinality(Counted))
====
